---- MODULE Spec2Model ----
(***************************************************************************)
(* Comment-report read model of crates/db_views/src/comment_report_view.rs *)
(* (queries::all_joins, queries::read, queries::list,                      *)
(* CommentReportView::get_report_count) over a relational store, together  *)
(* with the writes that change what those reads return (filing a report,   *)
(* resolving it, moderator / ban / admin / block relations).               *)
(***************************************************************************)
EXTENDS Integers, Sequences, FiniteSets, TLC

\* ---------------------------------------------------------------- bounds
NumPersons == 2
NumCommunities == 2
NumComments == 2
MaxReports == 2
MaxTime == 1
MaxPage == 3
MaxLimit == 2

\* SQL NULL / Option::None
NULL == -100

\* default page size of limit_and_offset when no limit is supplied
FETCH_LIMIT_DEFAULT == 10

Persons == 1..NumPersons
Communities == 1..NumCommunities
Comments == 1..NumComments
Opt(S) == S \cup {NULL}

Min(a, b) == IF a <= b THEN a ELSE b

\* ---------------------------------------------------------------- state
VARIABLES
  comment_report,     \* table comment_report: sequence of rows, id = position
  community_actions,  \* table community_actions: (person, community) -> row
  local_user_admin,   \* persons whose local_user row has admin = true
  person_blocked,     \* table person_actions: (person, target) pairs with blocked not null
  comment_actions,    \* table comment_actions: (person, comment) -> row
  now,                \* the store's clock (SQL now())
  ret                 \* the last call and what it returned

vars ==
  <<comment_report, community_actions, local_user_admin, person_blocked, comment_actions,
    now, ret>>

\* ---------------------------------------------------------------- fixture tables
\* The comments under report: comment c is written by a person and sits on
\* post c, which belongs to a community (the rows test_crud inserts before it
\* files reports).
comment(c) == [id |-> c, creator_id |-> ((c - 1) % NumPersons) + 1, post_id |-> c]

post(p) == [id |-> p, community_id |-> ((p - 1) % NumCommunities) + 1]

\* A community_actions row with every column NULL: what a left join yields
\* when the (person, community) pair has no row. became_moderator and
\* received_ban are timestamps the queries only test with IS NOT NULL: the
\* row keeps whether each is set. ban_expires is compared with now() and
\* keeps its value.
NoActions ==
  [became_moderator |-> FALSE, received_ban |-> FALSE, ban_expires |-> NULL,
   follow_state |-> "NULL"]

\* A comment_actions row with every column NULL.
NoCommentActions == [saved |-> FALSE, like_score |-> NULL]

ReportIds == 1..Len(comment_report)

Init ==
  /\ comment_report = <<>>
  /\ community_actions = [k \in Persons \X Communities |-> NoActions]
  /\ local_user_admin = {}
  /\ person_blocked = {}
  /\ comment_actions = [k \in Persons \X Comments |-> NoCommentActions]
  /\ now = 0
  /\ ret = [op |-> "init"]

\* ---------------------------------------------------------------- writes
\* The store's clock advances.
Tick ==
  /\ now < MaxTime
  /\ now' = now + 1
  /\ ret' = [op |-> "tick"]
  /\ UNCHANGED <<comment_report, community_actions, local_user_admin, person_blocked, comment_actions>>

\* CommentReport::report: insert an open report, published = now().
\* A person can report a comment only once.
report(creator_id, comment_id) ==
  /\ Len(comment_report) < MaxReports
  /\ \A i \in ReportIds :
       ~(comment_report[i].creator_id = creator_id /\ comment_report[i].comment_id = comment_id)
  /\ comment_report' = Append(comment_report,
       [id |-> Len(comment_report) + 1,
        creator_id |-> creator_id,
        comment_id |-> comment_id,
        resolved |-> FALSE,
        resolver_id |-> NULL,
        published |-> now,
        updated |-> NULL])
  /\ ret' = [op |-> "report", report_id |-> Len(comment_report) + 1]
  /\ UNCHANGED <<community_actions, local_user_admin, person_blocked, comment_actions, now>>

\* CommentReport::resolve: resolved = true, resolver_id = actor, updated = now();
\* NotFound when the id does not exist.
Resolved(r, by_resolver_id) ==
  [r EXCEPT !.resolved = TRUE, !.resolver_id = by_resolver_id, !.updated = now]

resolve(report_id, by_resolver_id) ==
  /\ IF report_id \in ReportIds
       THEN /\ comment_report' = [comment_report EXCEPT
                 ![report_id] = Resolved(comment_report[report_id], by_resolver_id)]
            /\ ret' = [op |-> "resolve", report_id |-> report_id,
                       resolver_id |-> by_resolver_id, result |-> "Ok"]
       ELSE /\ comment_report' = comment_report
            /\ ret' = [op |-> "resolve", report_id |-> report_id,
                       resolver_id |-> by_resolver_id, result |-> "NotFound"]
  /\ UNCHANGED <<community_actions, local_user_admin, person_blocked, comment_actions, now>>

\* CommunityModerator::join: the (person, community) row gets became_moderator.
join(person_id, community_id) ==
  /\ ~community_actions[<<person_id, community_id>>].became_moderator
  /\ community_actions' = [community_actions EXCEPT
       ![<<person_id, community_id>>].became_moderator = TRUE]
  /\ ret' = [op |-> "join"]
  /\ UNCHANGED <<comment_report, local_user_admin, person_blocked, comment_actions, now>>

\* A community ban of a person, permanent (expires = NULL) or until expires.
ban(person_id, community_id, expires) ==
  /\ ~community_actions[<<person_id, community_id>>].received_ban
  /\ community_actions' = [community_actions EXCEPT
       ![<<person_id, community_id>>].received_ban = TRUE,
       ![<<person_id, community_id>>].ban_expires = expires]
  /\ ret' = [op |-> "ban"]
  /\ UNCHANGED <<comment_report, local_user_admin, person_blocked, comment_actions, now>>

\* A person's local account gets the admin flag.
add_admin(person_id) ==
  /\ person_id \notin local_user_admin
  /\ local_user_admin' = local_user_admin \cup {person_id}
  /\ ret' = [op |-> "add_admin"]
  /\ UNCHANGED <<comment_report, community_actions, person_blocked, comment_actions, now>>

\* A person blocks another person.
block(person_id, target_id) ==
  /\ person_id # target_id
  /\ <<person_id, target_id>> \notin person_blocked
  /\ person_blocked' = person_blocked \cup {<<person_id, target_id>>}
  /\ ret' = [op |-> "block"]
  /\ UNCHANGED <<comment_report, community_actions, local_user_admin, comment_actions, now>>

\* A person saves a comment.
save(person_id, comment_id) ==
  /\ ~comment_actions[<<person_id, comment_id>>].saved
  /\ comment_actions' = [comment_actions EXCEPT ![<<person_id, comment_id>>].saved = TRUE]
  /\ ret' = [op |-> "save"]
  /\ UNCHANGED <<comment_report, community_actions, local_user_admin, person_blocked, now>>

\* A person votes on a comment: score 1 or -1.
like(person_id, comment_id, score) ==
  /\ comment_actions[<<person_id, comment_id>>].like_score # score
  /\ comment_actions' = [comment_actions EXCEPT ![<<person_id, comment_id>>].like_score = score]
  /\ ret' = [op |-> "like"]
  /\ UNCHANGED <<comment_report, community_actions, local_user_admin, person_blocked, now>>

\* A person follows a community: the follow is pending or accepted.
follow(person_id, community_id, state) ==
  /\ community_actions[<<person_id, community_id>>].follow_state # state
  /\ community_actions' = [community_actions EXCEPT
       ![<<person_id, community_id>>].follow_state = state]
  /\ ret' = [op |-> "follow"]
  /\ UNCHANGED <<comment_report, local_user_admin, person_blocked, comment_actions, now>>

\* ---------------------------------------------------------------- SQL values
\* SQL's three-valued booleans, as the ban expression of all_joins needs them.
SqlBool(b) == IF b THEN "true" ELSE "false"

SqlGt(a, b) == IF a = NULL \/ b = NULL THEN "null" ELSE IF a > b THEN "true" ELSE "false"

SqlOr(a, b) ==
  IF a = "true" \/ b = "true" THEN "true"
  ELSE IF a = "null" \/ b = "null" THEN "null"
  ELSE "false"

coalesce(x, default) == IF x = "null" THEN default ELSE x

\* ---------------------------------------------------------------- the view
\* The creator join keyed by the person who filed the report.
creator_community_actions_of_reporter(r) ==
  community_actions[<<r.creator_id, post(comment(r.comment_id).post_id).community_id>>]

\* creator_community_actions: community_actions left-joined on
\* (comment.creator_id, post.community_id).
creator_community_actions(r) ==
  community_actions[<<comment(r.comment_id).creator_id,
                      post(comment(r.comment_id).post_id).community_id>>]

\* coalesce(received_ban IS NOT NULL OR ban_expires > now, false)
creator_banned_from_community(r) ==
  LET cca == creator_community_actions(r)
  IN coalesce(SqlOr(SqlBool(cca.received_ban), SqlGt(cca.ban_expires, now)),
              "false") = "true"

\* creator_community_actions.became_moderator IS NOT NULL
creator_is_moderator(r) == creator_community_actions(r).became_moderator

\* local_user left-joined on comment.creator_id = local_user.person_id
\* AND local_user.admin; the column is then tested for NOT NULL.
creator_is_admin(r) == comment(r.comment_id).creator_id \in local_user_admin

\* person_actions left-joined on (my_person_id, comment.creator_id);
\* blocked IS NOT NULL.
creator_blocked(r, my_person_id) ==
  <<my_person_id, comment(r.comment_id).creator_id>> \in person_blocked

\* community_actions left-joined on (my_person_id, post.community_id);
\* CommunityFollower::select_subscribed_type() maps its follow_state.
subscribed(r, my_person_id) ==
  LET state == community_actions[<<my_person_id,
                 post(comment(r.comment_id).post_id).community_id>>].follow_state
  IN IF state = "Accepted" THEN "Subscribed"
     ELSE IF state = "Pending" THEN "Pending"
     ELSE "NotSubscribed"

\* comment_actions left-joined on (my_person_id, comment_report.comment_id);
\* saved IS NOT NULL.
saved(r, my_person_id) == comment_actions[<<my_person_id, r.comment_id>>].saved

\* comment_actions.like_score, nullable.
my_vote(r, my_person_id) == comment_actions[<<my_person_id, r.comment_id>>].like_score

\* comment_aggregates inner-joined on comment_report.comment_id.
counts(r) == [comment_id |-> r.comment_id]

\* The resolver join keyed by the report's creator_id.
resolver_by_creator_id(r) == IF r.creator_id \in Persons THEN r.creator_id ELSE NULL

\* The resolver join never matching.
resolver_never(r) == NULL

\* person2 left-joined on comment_report.resolver_id = person2.id
resolver(r) == IF r.resolver_id \in Persons THEN r.resolver_id ELSE NULL

\* queries::all_joins: the view row of report row r for viewer my_person_id.
all_joins(r, my_person_id) ==
  LET c == comment(r.comment_id)
      p == post(c.post_id)
  IN [comment_report |-> r,
      comment |-> c,
      post |-> p,
      community |-> p.community_id,
      creator |-> r.creator_id,
      comment_creator |-> c.creator_id,
      creator_banned_from_community |-> creator_banned_from_community(r),
      creator_is_moderator |-> creator_is_moderator(r),
      creator_is_admin |-> creator_is_admin(r),
      counts |-> counts(r),
      creator_blocked |-> creator_blocked(r, my_person_id),
      subscribed |-> subscribed(r, my_person_id),
      saved |-> saved(r, my_person_id),
      my_vote |-> my_vote(r, my_person_id),
      resolver |-> resolver(r)]

\* ---------------------------------------------------------------- reads
\* Result<CommentReportView, Error>
Ok(view) == [ok |-> TRUE, view |-> view]

Err(error) == [ok |-> FALSE, error |-> error]

\* read that answers only a moderator of the report's community.
read_moderators_only(report_id, my_person_id) ==
  IF /\ report_id \in ReportIds
     /\ community_actions[<<my_person_id,
          post(comment(comment_report[report_id].comment_id).post_id).community_id>>].became_moderator
    THEN Ok(all_joins(comment_report[report_id], my_person_id))
    ELSE Err("NotFound")

\* queries::read: find(report_id) through all_joins, first row or NotFound.
read(report_id, my_person_id) ==
  IF report_id \in ReportIds
    THEN Ok(all_joins(comment_report[report_id], my_person_id))
    ELSE Err("NotFound")

\* limit_and_offset: (limit, offset) of a page >= 1 and a limit >= 1.
limit_and_offset(page, limit) ==
  LET pg == IF page = NULL THEN 1 ELSE page
      lim == IF limit = NULL THEN FETCH_LIMIT_DEFAULT ELSE limit
  IN [limit |-> lim, offset |-> lim * (pg - 1)]

\* OrderBy that sorts newest first whatever the flag.
OrderBy_always_desc(rows, asc) ==
  {s \in [1..Cardinality(rows) -> rows] :
     /\ \A i, j \in 1..Cardinality(rows) : i # j => s[i] # s[j]
     /\ \A i, j \in 1..Cardinality(rows) : i < j =>
          s[i].comment_report.published >= s[j].comment_report.published}

\* ORDER BY published ASC / DESC: every order of the rows the sort key allows
\* (rows with equal published come in any order).
OrderBy(rows, asc) ==
  {s \in [1..Cardinality(rows) -> rows] :
     /\ \A i, j \in 1..Cardinality(rows) : i # j => s[i] # s[j]
     /\ \A i, j \in 1..Cardinality(rows) : i < j =>
          IF asc THEN s[i].comment_report.published <= s[j].comment_report.published
                 ELSE s[i].comment_report.published >= s[j].comment_report.published}

\* LIMIT limit OFFSET offset
LimitOffset(s, limit, offset) ==
  IF offset >= Len(s) THEN <<>> ELSE SubSeq(s, offset + 1, Min(offset + limit, Len(s)))

\* The viewer's own community_actions row of the row's community
\* (actions(community_actions, Some(my_person_id), post::community_id)).
ViewerModerates(person_id, community_id) ==
  community_actions[<<person_id, community_id>>].became_moderator

\* ListFilter without the moderator restriction for non-admins.
ListFilter_no_mod_check(row, options, user) ==
  /\ options.community_id # NULL => row.post.community_id = options.community_id
  /\ options.comment_id # NULL => row.comment_report.comment_id = options.comment_id
  /\ options.unresolved_only => row.comment_report.resolved = FALSE

\* The WHERE clause of queries::list.
ListFilter(row, options, user) ==
  /\ options.community_id # NULL => row.post.community_id = options.community_id
  /\ options.comment_id # NULL => row.comment_report.comment_id = options.comment_id
  /\ options.unresolved_only => row.comment_report.resolved = FALSE
  /\ ~user.admin => ViewerModerates(user.person_id, row.post.community_id)

\* list with the moderator restriction applied to the page instead of to the
\* rows the page is cut from.
list_filter_after_page(options, user) ==
  LET rows == {all_joins(comment_report[i], user.person_id) : i \in ReportIds}
      kept == {row \in rows : ListFilter(row, options, [user EXCEPT !.admin = TRUE])}
      lo == limit_and_offset(options.page, options.limit)
  IN {SelectSeq(LimitOffset(s, lo.limit, lo.offset),
                LAMBDA row : ListFilter(row, options, user)) :
        s \in OrderBy(kept, options.unresolved_only)}

\* list with the viewer-scoped joins keyed by the report's creator instead of
\* the viewer.
list_joins_for_reporter(options, user) ==
  LET rows == {all_joins(comment_report[i], comment_report[i].creator_id) : i \in ReportIds}
      kept == {row \in rows : ListFilter(row, options, user)}
      lo == limit_and_offset(options.page, options.limit)
  IN {LimitOffset(s, lo.limit, lo.offset) : s \in OrderBy(kept, options.unresolved_only)}

\* queries::list: the results the query can return. The moderator filter is
\* added to the query after limit and offset and is still part of its WHERE
\* clause, which the store applies before ORDER BY, LIMIT and OFFSET.
list(options, user) ==
  LET rows == {all_joins(comment_report[i], user.person_id) : i \in ReportIds}
      kept == {row \in rows : ListFilter(row, options, user)}
      lo == limit_and_offset(options.page, options.limit)
  IN {LimitOffset(s, lo.limit, lo.offset) : s \in OrderBy(kept, options.unresolved_only)}

\* get_report_count without the resolved = false filter.
get_report_count_all(my_person_id, admin, community_id) ==
  LET base == {i \in ReportIds :
                 community_id # NULL =>
                   post(comment(comment_report[i].comment_id).post_id).community_id = community_id}
      joined == {x \in base \X DOMAIN community_actions :
                   /\ x[2][2] = post(comment(comment_report[x[1]].comment_id).post_id).community_id
                   /\ x[2][1] = my_person_id
                   /\ community_actions[x[2]].became_moderator}
  IN IF ~admin THEN Cardinality(joined) ELSE Cardinality(base)

\* get_report_count whose inner join matches the moderator row of any person.
get_report_count_any_moderator(my_person_id, admin, community_id) ==
  LET base == {i \in ReportIds :
                 /\ comment_report[i].resolved = FALSE
                 /\ community_id # NULL =>
                      post(comment(comment_report[i].comment_id).post_id).community_id = community_id}
      joined == {x \in base \X DOMAIN community_actions :
                   /\ x[2][2] = post(comment(comment_report[x[1]].comment_id).post_id).community_id
                   /\ community_actions[x[2]].became_moderator}
  IN IF ~admin THEN Cardinality(joined) ELSE Cardinality(base)

\* CommentReportView::get_report_count: count(comment_report.id) over the
\* unresolved reports, inner-joined to the viewer's moderator rows unless admin.
get_report_count(my_person_id, admin, community_id) ==
  LET base == {i \in ReportIds :
                 /\ comment_report[i].resolved = FALSE
                 /\ community_id # NULL =>
                      post(comment(comment_report[i].comment_id).post_id).community_id = community_id}
      joined == {x \in base \X DOMAIN community_actions :
                   /\ x[2][2] = post(comment(comment_report[x[1]].comment_id).post_id).community_id
                   /\ x[2][1] = my_person_id
                   /\ community_actions[x[2]].became_moderator}
  IN IF ~admin THEN Cardinality(joined) ELSE Cardinality(base)

\* The calls, as steps: each leaves the store alone and records what it returned.
Read(report_id, my_person_id) ==
  /\ ret' = [op |-> "read", report_id |-> report_id, my_person_id |-> my_person_id,
             result |-> read(report_id, my_person_id)]
  /\ UNCHANGED <<comment_report, community_actions, local_user_admin, person_blocked, comment_actions, now>>

List(options, user) ==
  /\ \E res \in list(options, user) :
       ret' = [op |-> "list", options |-> options, user |-> user, result |-> res]
  /\ UNCHANGED <<comment_report, community_actions, local_user_admin, person_blocked, comment_actions, now>>

GetReportCount(my_person_id, admin, community_id) ==
  /\ ret' = [op |-> "get_report_count", my_person_id |-> my_person_id, admin |-> admin,
             community_id |-> community_id,
             result |-> get_report_count(my_person_id, admin, community_id)]
  /\ UNCHANGED <<comment_report, community_actions, local_user_admin, person_blocked, comment_actions, now>>

\* ---------------------------------------------------------------- inputs
\* LocalUserView values: the viewer's person id and local_user.admin
Users == [person_id : Persons, admin : BOOLEAN]

\* CommentReportQuery values without pagination
Unpaged ==
  [community_id : Opt(Communities), comment_id : {NULL, 1},
   unresolved_only : BOOLEAN, page : {NULL}, limit : {NULL}]

\* CommentReportQuery values with pagination
Paged ==
  [community_id : {NULL, 1}, comment_id : {NULL},
   unresolved_only : BOOLEAN, page : Opt(1..MaxPage), limit : Opt(1..MaxLimit)]

\* CommentReportQuery::default()
DefaultQuery ==
  [community_id |-> NULL, comment_id |-> NULL, unresolved_only |-> FALSE,
   page |-> NULL, limit |-> NULL]

\* ---------------------------------------------------------------- specifications
\* Role-filtered lists and counts over reports that are filed and resolved.
Next ==
  \/ \E p \in Persons, c \in Comments : report(p, c)
  \/ \E id \in 1..MaxReports : resolve(id, 1)
  \/ \E p \in Persons, c \in Communities : join(p, c)
  \/ \E o \in Unpaged, u \in Users : List(o, u)
  \/ \E p \in Persons, a \in BOOLEAN, c \in Opt(Communities) : GetReportCount(p, a, c)

Spec == Init /\ [][Next]_vars

\* Ordered, paginated lists for one viewer over reports filed at different times.
NextPage ==
  \/ Tick
  \/ \E p \in Persons, c \in Comments : report(p, c)
  \/ \E c \in Communities : join(1, c)
  \/ \E o \in Paged, a \in BOOLEAN : List(o, [person_id |-> 1, admin |-> a])

SpecPage == Init /\ [][NextPage]_vars

\* Resolution and point lookup.
NextResolve ==
  \/ Tick
  \/ \E p \in Persons, c \in Comments : report(p, c)
  \/ \E id \in 1..(MaxReports + 1), p \in Persons : resolve(id, p)
  \/ \E p \in Persons, c \in Communities : join(p, c)
  \/ \E id \in 1..(MaxReports + 1), p \in Persons : Read(id, p)

SpecResolve == Init /\ [][NextResolve]_vars

\* Community bans, permanent or expiring, seen through the point lookup.
NextBan ==
  \/ Tick
  \/ \E p \in Persons, c \in Comments : report(p, c)
  \/ \E p \in Persons, c \in Communities, e \in Opt(1..MaxTime) :
       (e # NULL => e > now) /\ ban(p, c, e)
  \/ \E id \in 1..MaxReports, p \in Persons : Read(id, p)

SpecBan == Init /\ [][NextBan]_vars

\* Moderator and admin relations of authors, reporters and viewers seen
\* through the point lookup.
NextRoles ==
  \/ \E p \in Persons, c \in Comments : report(p, c)
  \/ \E p \in Persons, c \in Communities : join(p, c)
  \/ \E p \in Persons : add_admin(p)
  \/ \E id \in 1..MaxReports, p \in Persons : Read(id, p)

SpecRoles == Init /\ [][NextRoles]_vars

\* The relations of one viewer (person 1) to authors, comments and
\* communities, seen through lookup and list.
NextViewer ==
  \/ \E p \in Persons, c \in Comments : report(p, c)
  \/ \E c \in Communities : join(1, c)
  \/ \E q \in Persons : block(1, q)
  \/ \E c \in Comments : save(1, c)
  \/ \E s \in {-1, 1} : like(1, 2, s)
  \/ \E s \in {"Pending", "Accepted"} : follow(1, 2, s)
  \/ \E id \in 1..MaxReports : Read(id, 1)
  \/ \E a \in BOOLEAN : List(DefaultQuery, [person_id |-> 1, admin |-> a])

SpecViewer == Init /\ [][NextViewer]_vars

\* The pages a list of at most MaxReports reports can fill, and one more.
AllPages == 1..(MaxReports + 1)

\* The unresolved-only query of a community filter, a page and a page size,
\* with no comment filter.
UnresolvedPage(community_id, page, limit) ==
  [community_id |-> community_id, comment_id |-> NULL, unresolved_only |-> TRUE,
   page |-> page, limit |-> limit]

\* ---------------------------------------------------------------- properties
\* The relationship tables, read directly.
ReportCommunity(i) == post(comment(comment_report[i].comment_id).post_id).community_id

Author(i) == comment(comment_report[i].comment_id).creator_id

Moderates(person_id, community_id) ==
  community_actions[<<person_id, community_id>>].became_moderator

\* Report i passes the optional filters of a query.
Matches(i, options) ==
  /\ options.community_id = NULL \/ ReportCommunity(i) = options.community_id
  /\ options.comment_id = NULL \/ comment_report[i].comment_id = options.comment_id
  /\ ~options.unresolved_only \/ ~comment_report[i].resolved

\* The ids of the reports a list result holds.
ReturnedIds(res) == {res[k].comment_report.id : k \in 1..Len(res)}

\* The unresolved reports of a community filter that a viewer may see.
OpenVisible(person_id, admin, community_id) ==
  {i \in ReportIds :
     /\ ~comment_report[i].resolved
     /\ community_id = NULL \/ ReportCommunity(i) = community_id
     /\ admin \/ Moderates(person_id, ReportCommunity(i))}

\* C1: a non-admin viewer is never given, by list or by get_report_count, a
\* report of a community the viewer does not moderate; an admin viewer is
\* given every report that passes the filters, moderator or not.
C1_RoleVisibility ==
  /\ ret.op = "list" =>
       /\ ~ret.user.admin =>
            \A i \in ReturnedIds(ret.result) :
              Moderates(ret.user.person_id, ReportCommunity(i))
       /\ (ret.user.admin /\ ret.options.page = NULL /\ ret.options.limit = NULL) =>
            ReturnedIds(ret.result) = {i \in ReportIds : Matches(i, ret.options)}
  /\ ret.op = "get_report_count" =>
       ret.result = Cardinality(OpenVisible(ret.my_person_id, ret.admin, ret.community_id))

\* A non-admin list that returned a report while another matching report, of
\* a community the viewer does not moderate, was held back.
C1_Witness ==
  /\ ret.op = "list"
  /\ ~ret.user.admin
  /\ Len(ret.result) >= 1
  /\ \E i \in ReportIds :
       /\ Matches(i, ret.options)
       /\ ~Moderates(ret.user.person_id, ReportCommunity(i))
       /\ i \notin ReturnedIds(ret.result)

\* An unresolved-only list without pagination returns exactly the unresolved
\* reports that pass its filters and that its viewer may see.
UnresolvedListIsExact ==
  (ret.op = "list" /\ ret.options.unresolved_only
     /\ ret.options.page = NULL /\ ret.options.limit = NULL) =>
    ReturnedIds(ret.result) =
      {i \in ReportIds : /\ ~comment_report[i].resolved
                         /\ Matches(i, ret.options)
                         /\ ret.user.admin \/ Moderates(ret.user.person_id, ReportCommunity(i))}

\* What a resolve step does to the counts, and what a list step returns.
C6_Step ==
  /\ \A id \in 1..MaxReports :
       (ret'.op = "resolve" /\ ret'.result = "Ok" /\ ret'.report_id = id) =>
         /\ \A j \in ReportIds : (j # id) => (comment_report'[j] = comment_report[j])
         /\ comment_report'[id].resolved
         /\ \A p \in Persons, a \in BOOLEAN, c \in Opt(Communities) :
              get_report_count(p, a, c)' =
                get_report_count(p, a, c) - (IF id \in OpenVisible(p, a, c) THEN 1 ELSE 0)
  /\ UnresolvedListIsExact'

\* C6: resolving an open report takes exactly one off the unresolved count of
\* every viewer who can see it (nothing off when it was already resolved or
\* the viewer cannot see it), leaves every other report as it was, and every
\* later unresolved-only list returns exactly the other unresolved reports
\* the viewer can see.
C6_ResolveEffect == [][C6_Step]_vars

\* A resolve call has just closed one report while another report of the same
\* community, which a moderator can see, stays open.
C6_Witness ==
  /\ ret.op = "resolve"
  /\ ret.result = "Ok"
  /\ \E j \in ReportIds, p \in Persons :
       /\ j # ret.report_id
       /\ ~comment_report[j].resolved
       /\ ReportCommunity(j) = ReportCommunity(ret.report_id)
       /\ Moderates(p, ReportCommunity(j))

\* The published time of the k-th row of a list result.
PublishedAt(res, k) == res[k].comment_report.published

\* C2, as claimed: the rows of a list result are strictly ordered by published,
\* oldest first when unresolved_only and newest first otherwise.
C2_StrictOrder ==
  ret.op = "list" =>
    \A i, j \in 1..Len(ret.result) : i < j =>
      IF ret.options.unresolved_only
        THEN PublishedAt(ret.result, i) < PublishedAt(ret.result, j)
        ELSE PublishedAt(ret.result, i) > PublishedAt(ret.result, j)

\* C2, amended: the rows of a list result are ordered by published, oldest
\* first when unresolved_only and newest first otherwise; reports with the
\* same published time follow each other in either order.
C2_Order ==
  ret.op = "list" =>
    \A i, j \in 1..Len(ret.result) : i < j =>
      IF ret.options.unresolved_only
        THEN PublishedAt(ret.result, i) <= PublishedAt(ret.result, j)
        ELSE PublishedAt(ret.result, i) >= PublishedAt(ret.result, j)

\* An unresolved-only list returned two reports filed at different times.
C2_Witness ==
  /\ ret.op = "list"
  /\ ret.options.unresolved_only
  /\ Len(ret.result) = 2
  /\ PublishedAt(ret.result, 1) # PublishedAt(ret.result, 2)

\* The reports a query's filters and its viewer's role let through.
VisibleIds(options, user) ==
  {i \in ReportIds :
     /\ Matches(i, options)
     /\ user.admin \/ Moderates(user.person_id, ReportCommunity(i))}

\* The orders of those reports that the active ordering allows.
FullOrders(options, user) ==
  LET ids == VisibleIds(options, user)
      n == Cardinality(ids)
  IN {s \in [1..n -> ids] :
        /\ \A i, j \in 1..n : i # j => s[i] # s[j]
        /\ \A i, j \in 1..n : i < j =>
             IF options.unresolved_only
               THEN comment_report[s[i]].published <= comment_report[s[j]].published
               ELSE comment_report[s[i]].published >= comment_report[s[j]].published}

\* How many of n elements lie at positions (p-1)*L+1 .. p*L.
PageLen(n, p, L) == IF (p - 1) * L >= n THEN 0 ELSE Min(n, p * L) - (p - 1) * L

\* C5: page p with limit L holds the elements at positions (p-1)*L+1 .. p*L of
\* the ordered sequence of the reports that pass the filters and that the
\* viewer may see; a page past the end is empty.
C5_PageOfVisible ==
  (ret.op = "list" /\ ret.options.page # NULL /\ ret.options.limit # NULL) =>
    \E s \in FullOrders(ret.options, ret.user) :
      LET p == ret.options.page
          L == ret.options.limit
      IN /\ Len(ret.result) = PageLen(Len(s), p, L)
         /\ \A k \in 1..Len(ret.result) :
              ret.result[k].comment_report.id = s[(p - 1) * L + k]

\* A non-admin asked for page 1 with limit 1 and got a report, although a report
\* the viewer may not see passes the filters and sorts before it.
C5_Witness ==
  /\ ret.op = "list"
  /\ ~ret.user.admin
  /\ ret.options.page = 1
  /\ ret.options.limit = 1
  /\ Len(ret.result) = 1
  /\ \E i \in ReportIds :
       /\ Matches(i, ret.options)
       /\ ~Moderates(ret.user.person_id, ReportCommunity(i))
       /\ IF ret.options.unresolved_only
            THEN comment_report[i].published < PublishedAt(ret.result, 1)
            ELSE comment_report[i].published > PublishedAt(ret.result, 1)

\* A point lookup that found its report shows the report's resolver_id as
\* the resolver.
ReadShowsResolver ==
  (ret.op = "read" /\ ret.result.ok) =>
    ret.result.view.resolver = comment_report[ret.report_id].resolver_id

\* What a step may do to the resolution of reports.
C3_Step ==
  /\ \A id \in 1..(MaxReports + 1), a \in Persons :
       (ret'.op = "resolve" /\ ret'.result = "Ok"
          /\ ret'.report_id = id /\ ret'.resolver_id = a) =>
         /\ comment_report'[id].resolved
         /\ comment_report'[id].resolver_id = a
         /\ \A v \in Persons : read(id, v)'.ok /\ read(id, v)'.view.resolver = a
         /\ \A j \in ReportIds :
              (j # id) => (comment_report'[j].resolver_id = comment_report[j].resolver_id)
  /\ ret'.op # "resolve" =>
       \A j \in ReportIds :
         /\ comment_report'[j].resolver_id = comment_report[j].resolver_id
         /\ comment_report'[j].resolved = comment_report[j].resolved
  /\ ReadShowsResolver'

\* C3: a resolve call on an existing report leaves it resolved with the
\* caller as resolver_id, whoever resolved it before, and every lookup then
\* shows the caller as the resolver; no other step changes a report's
\* resolved flag or resolver_id, so the resolver is that of the latest call.
C3_LastResolverWins == [][C3_Step]_vars

\* A lookup shows person 2 as the resolver of a report that was filed at time
\* 0 and last resolved at time 1.
C3_Witness ==
  /\ ret.op = "read"
  /\ ret.result.ok
  /\ ret.result.view.resolver = 2
  /\ ret.result.view.comment_report.published = 0
  /\ ret.result.view.comment_report.updated = 1

\* C4: a resolved report has a resolver_id and an updated time, which is the
\* time of the resolve call; an open report has no resolver_id; a view shows a
\* resolver exactly when its report is resolved.
C4_ResolvedHasResolver ==
  /\ \A i \in ReportIds :
       LET r == comment_report[i]
       IN /\ r.resolved => /\ r.resolver_id \in Persons
                           /\ r.updated # NULL
                           /\ r.published <= r.updated
                           /\ r.updated <= now
          /\ ~r.resolved => r.resolver_id = NULL
  /\ (ret.op = "resolve" /\ ret.result = "Ok") =>
       comment_report[ret.report_id].updated = now
  /\ (ret.op = "read" /\ ret.result.ok) =>
       (ret.result.view.resolver # NULL <=> ret.result.view.comment_report.resolved)

\* A lookup of a resolved report, with its resolver, while another report is
\* still open.
C4_Witness ==
  /\ ret.op = "read"
  /\ ret.result.ok
  /\ ret.result.view.comment_report.resolved
  /\ ret.result.view.resolver # NULL
  /\ \E i \in ReportIds : ~comment_report[i].resolved

\* C8: a point lookup returns the view of the report with the id asked for
\* when that report exists, whatever the viewer's role, and NotFound when it
\* does not exist.
C8_ReadFindsOrNotFound ==
  ret.op = "read" =>
    /\ ret.report_id \in ReportIds =>
         /\ ret.result.ok
         /\ ret.result.view.comment_report = comment_report[ret.report_id]
    /\ ret.report_id \notin ReportIds =>
         /\ ~ret.result.ok
         /\ ret.result.error = "NotFound"

\* A lookup succeeded for a viewer who does not moderate the report's
\* community, while another person does: no list for that viewer as a
\* non-admin returns the report.
C8_Witness ==
  /\ ret.op = "read"
  /\ ret.result.ok
  /\ ~Moderates(ret.my_person_id, ReportCommunity(ret.report_id))
  /\ \E p \in Persons : Moderates(p, ReportCommunity(ret.report_id))
  /\ \A o \in Unpaged :
       \A res \in list(o, [person_id |-> ret.my_person_id, admin |-> FALSE]) :
         ret.report_id \notin ReturnedIds(res)

\* C7: every row a list returns is, field for field, the row the point lookup
\* of the same report returns to the same viewer in the same state.
C7_ListRowIsReadRow ==
  ret.op = "list" =>
    \A k \in 1..Len(ret.result) :
      read(ret.result[k].comment_report.id, ret.user.person_id) = Ok(ret.result[k])

\* A list returned a report filed by someone else, on a comment the viewer
\* saved and voted on, by an author the viewer blocked, in a community the
\* viewer follows.
C7_Witness ==
  /\ ret.op = "list"
  /\ \E k \in 1..Len(ret.result) :
       /\ ret.result[k].creator_blocked
       /\ ret.result[k].saved
       /\ ret.result[k].my_vote = 1
       /\ ret.result[k].subscribed = "Subscribed"
       /\ ret.result[k].creator # ret.user.person_id

\* The community_actions row of the author of report i in its community.
AuthorActions(i) == community_actions[<<Author(i), ReportCommunity(i)>>]

\* C9, as claimed: creator_banned_from_community is true exactly when the
\* author has a ban in the report's community that is permanent or expires
\* after the time of the read.
C9_BannedIffActiveBan ==
  (ret.op = "read" /\ ret.result.ok) =>
    (ret.result.view.creator_banned_from_community <=>
       /\ AuthorActions(ret.report_id).received_ban
       /\ \/ AuthorActions(ret.report_id).ban_expires = NULL
          \/ AuthorActions(ret.report_id).ban_expires > now)

\* C10: creator_is_moderator is the moderator relation of the comment's author
\* in the report's community and creator_is_admin is the author's admin flag,
\* as the tables hold them at the read, the same for every viewer.
C10_CreatorRoles ==
  (ret.op = "read" /\ ret.result.ok) =>
    /\ ret.result.view.creator_is_moderator =
         Moderates(Author(ret.report_id), ReportCommunity(ret.report_id))
    /\ ret.result.view.creator_is_admin = (Author(ret.report_id) \in local_user_admin)
    /\ \A v \in Persons :
         /\ read(ret.report_id, v).view.creator_is_moderator =
              ret.result.view.creator_is_moderator
         /\ read(ret.report_id, v).view.creator_is_admin = ret.result.view.creator_is_admin

\* A lookup shows the author as moderator and admin to a viewer who filed the
\* report and is neither.
C10_Witness ==
  /\ ret.op = "read"
  /\ ret.result.ok
  /\ ret.result.view.creator_is_moderator
  /\ ret.result.view.creator_is_admin
  /\ ret.my_person_id # Author(ret.report_id)
  /\ comment_report[ret.report_id].creator_id = ret.my_person_id
  /\ ~Moderates(ret.my_person_id, ReportCommunity(ret.report_id))
  /\ ret.my_person_id \notin local_user_admin

\* The lengths of the pages 1..n of a list, added up (the results a page can
\* have differ in the order of ties, never in length).
RECURSIVE PagesLen(_, _, _, _)
PagesLen(community_id, limit, user, n) ==
  IF n = 0 THEN 0
  ELSE Len(CHOOSE res \in list(UnresolvedPage(community_id, n, limit), user) : TRUE)
         + PagesLen(community_id, limit, user, n - 1)

\* C11: for every viewer, community filter and page size, the number
\* get_report_count returns is the number of rows the unresolved-only list of
\* the same viewer and community filter returns over all of its pages and the
\* number of distinct reports those pages can hold; the default first page
\* holds exactly that many rows, each report once.
C11_CountAgreesWithList ==
  ret.op = "get_report_count" =>
    \A l \in Opt(1..MaxLimit) :
      LET u == [person_id |-> ret.my_person_id, admin |-> ret.admin]
          c == ret.community_id
          returned == UNION {ReturnedIds(res) :
                        res \in UNION {list(UnresolvedPage(c, p, l), u) : p \in AllPages}}
      IN /\ Cardinality(returned) = ret.result
         /\ PagesLen(c, l, u, MaxReports + 1) = ret.result
         /\ \A res \in list(UnresolvedPage(c, NULL, NULL), u) :
              /\ Len(res) = ret.result
              /\ Cardinality(ReturnedIds(res)) = ret.result

\* A non-admin who moderates one community of two was told a count of one
\* while another community holds an open report and a second person
\* moderates the counted report's community.
C11_Witness ==
  /\ ret.op = "get_report_count"
  /\ ~ret.admin
  /\ ret.community_id = NULL
  /\ ret.result = 1
  /\ Cardinality({i \in ReportIds : ~comment_report[i].resolved}) = 2
  /\ \E i \in ReportIds, p \in Persons :
       /\ p # ret.my_person_id
       /\ ~comment_report[i].resolved
       /\ Moderates(ret.my_person_id, ReportCommunity(i))
       /\ Moderates(p, ReportCommunity(i))

====
